---- MODULE Spec2Model ----
(***************************************************************************)
(* Model of update_version.py: the version synchronizer of vec-utils.      *)
(* A file is a sequence of characters; the script reads each target with   *)
(* universal-newline translation, overwrites the list element at index 2,  *)
(* and writes the list back with newline="\n" (no translation on write).   *)
(***************************************************************************)
EXTENDS Integers, Sequences, FiniteSets

VARIABLES fs, fs0, pc, idx, data, stdout, exitCode, error, run

vars == <<fs, fs0, pc, idx, data, stdout, exitCode, error, run>>

(* ---------------------------- bounds ----------------------------------- *)
\* longest enumerated initial file content, in characters
MaxLen == 4
\* number of successive invocations of the script
MaxRuns == 2

(* ------------------------- program constants --------------------------- *)
CR == "\r"
LF == "\n"

\* VERSION = "0.2.5"
VERSION == <<"0", ".", "2", ".", "5">>

locations == << "./vec-utils/Cargo.toml",
                "./vec-utils-py/Cargo.toml",
                "./vec-utils-py/pyproject.toml" >>

\* variant: the platform newline of a host that writes CRLF
WriteNewline_crlf == <<CR, LF>>

\* the newline argument of open(i, "w", encoding="utf-8", newline="\n")
WriteNewline == <<LF>>

\* variant: the version line without its terminator
VersionLine_noLF ==
    <<"v", "e", "r", "s", "i", "o", "n", " ", "=", " ", "\"">> \o VERSION \o <<"\"">>

\* f'version = "{VERSION}"\n'
VersionLine ==
    <<"v", "e", "r", "s", "i", "o", "n", " ", "=", " ", "\"">> \o VERSION \o <<"\"", LF>>

\* f"{i} version updated"
Confirmation(path) == path \o " version updated"

(* ----------------------------- text I/O -------------------------------- *)
\* Text-mode read with newline=None: "\r\n" and a lone "\r" both become "\n"
\* (the LF of a CR LF pair is dropped, every CR becomes LF).
TranslateRead(s) ==
    LET Dropped == "dropped"
        marked == [n \in 1..Len(s) |->
                     IF s[n] = LF /\ n > 1 /\ s[n - 1] = CR THEN Dropped
                     ELSE IF s[n] = CR THEN LF
                     ELSE s[n]]
        Kept(c) == c # Dropped
    IN  SelectSeq(marked, Kept)

\* Position of the first LF of s at or after position k, or 0 when there is none.
FirstLF(s, k) ==
    LET lfs == {n \in k..Len(s) : s[n] = LF}
    IN  IF lfs = {} THEN 0 ELSE CHOOSE n \in lfs : \A m \in lfs : n <= m

\* Split on LF, every line keeping its terminator (the last may have none).
RECURSIVE SplitLines(_)
SplitLines(s) ==
    IF s = <<>> THEN <<>>
    ELSE LET k == FirstLF(s, 1)
         IN  IF k = 0 THEN <<s>>
             ELSE <<SubSeq(s, 1, k)>> \o SplitLines(SubSeq(s, k + 1, Len(s)))

\* variant: a read with newline="" that keeps every terminator as stored
readlines_untranslated(content) == SplitLines(content)

\* file.readlines() on a file opened with open(i, "r")
readlines(content) == SplitLines(TranslateRead(content))

RECURSIVE Concat(_)
Concat(lines) ==
    IF lines = <<>> THEN <<>> ELSE Head(lines) \o Concat(Tail(lines))

\* Text-mode write: with newline "" or "\n" nothing is translated, any other
\* newline string replaces every "\n" written.
RECURSIVE TranslateWrite(_, _)
TranslateWrite(s, newline) ==
    IF newline = <<>> \/ newline = <<LF>> THEN s
    ELSE IF s = <<>> THEN <<>>
    ELSE (IF Head(s) = LF THEN newline ELSE <<Head(s)>>)
         \o TranslateWrite(Tail(s), newline)

\* the characters file.writelines(data) sends to the file opened for writing
writelines(lines) == TranslateWrite(Concat(lines), WriteNewline)

\* variant: the second line is replaced instead of the third
SetVersion_offByOne(lines) == [lines EXCEPT ![2] = VersionLine]

\* data[2] = f'version = "{VERSION}"\n'
SetVersion(lines) == [lines EXCEPT ![3] = VersionLine]

\* data[2] is assignable only when the list has at least 3 elements
InRange(lines) == Len(lines) >= 3

(* ---------------------------- file system ------------------------------ *)
Paths == {locations[k] : k \in 1..Len(locations)}

Missing == [exists |-> FALSE, perm |-> "--", content |-> <<>>]
File(c, p) == [exists |-> TRUE, perm |-> p, content |-> c]

CanRead(e)  == e.exists /\ e.perm \in {"rw", "r-"}
CanWrite(e) == e.exists /\ e.perm = "rw"

Alphabet == {"v", CR, LF}

RECURSIVE SeqsUpTo(_)
SeqsUpTo(n) ==
    IF n = 0 THEN {<<>>}
    ELSE LET S == SeqsUpTo(n - 1)
         IN  S \cup {Append(s, c) : s \in {t \in S : Len(t) = n - 1}, c \in Alphabet}

AllContents == SeqsUpTo(MaxLen)

\* the manifest of the documented scenario
SampleFile ==
    <<"[", "p", "a", "c", "k", "a", "g", "e", "]", LF,
      "n", "a", "m", "e", " ", "=", " ", "\"", "x", "\"", LF,
      "v", "e", "r", "s", "i", "o", "n", " ", "=", " ", "\"", "0", ".", "2", ".", "4", "\"", LF,
      "e", "d", "i", "t", "i", "o", "n", " ", "=", " ", "\"", "2", "0", "2", "1", "\"", LF>>

LFFile   == <<"v", LF, "v", LF, "v", LF, "v", LF>>
CRLFFile == <<"v", CR, LF, "v", CR, LF, "v", CR, LF, "v", CR, LF>>

\* entries of the two targets that are not enumerated exhaustively
OtherEntries == {Missing, File(LFFile, "rw"), File(CRLFFile, "rw")}

\* entries of the exhaustively enumerated target
FocusEntries ==
    {File(c, "rw") : c \in AllContents}
      \cup {File(SampleFile, "rw"), File(LFFile, "r-"), File(LFFile, "--")}
      \cup OtherEntries

\* one target takes any focus entry, the two others take the fixed entries
InitialFileSystems ==
    {[f EXCEPT ![p] = e] : f \in [Paths -> OtherEntries], p \in Paths, e \in FocusEntries}

(* ------------------------------ actions -------------------------------- *)
Path == locations[idx]

Init ==
    /\ fs \in InitialFileSystems
    /\ fs0 = fs
    /\ pc = "read"
    /\ idx = 1
    /\ data = <<>>
    /\ stdout = <<>>
    /\ exitCode = -1
    /\ error = "none"
    /\ run = 1

\* an unhandled exception ends the process with status 1
Abort(exc) ==
    /\ pc' = "done"
    /\ exitCode' = 1
    /\ error' = exc

\* with open(i, "r") as file: data = file.readlines()
OpenRead ==
    /\ pc = "read"
    /\ CanRead(fs[Path])
    /\ data' = readlines(fs[Path].content)
    /\ pc' = "mutate"
    /\ UNCHANGED <<fs, fs0, idx, stdout, exitCode, error, run>>

\* variant: an unreadable target is skipped and the loop goes on
OpenReadFail_continue ==
    /\ pc = "read"
    /\ ~CanRead(fs[Path])
    /\ idx' = idx + 1
    /\ IF idx = Len(locations)
       THEN pc' = "done" /\ exitCode' = 0
       ELSE pc' = "read" /\ UNCHANGED exitCode
    /\ UNCHANGED <<fs, fs0, data, stdout, error, run>>

OpenReadFail ==
    /\ pc = "read"
    /\ ~CanRead(fs[Path])
    /\ Abort(IF fs[Path].exists THEN "PermissionError" ELSE "FileNotFoundError")
    /\ UNCHANGED <<fs, fs0, idx, data, stdout, run>>

\* data[2] = f'version = "{VERSION}"\n'
Mutate ==
    /\ pc = "mutate"
    /\ InRange(data)
    /\ data' = SetVersion(data)
    /\ pc' = "open_w"
    /\ UNCHANGED <<fs, fs0, idx, stdout, exitCode, error, run>>

\* variant: the failure restores every file to its content before the run
MutateFail_rollback ==
    /\ pc = "mutate"
    /\ ~InRange(data)
    /\ Abort("IndexError")
    /\ fs' = fs0
    /\ UNCHANGED <<fs0, idx, data, stdout, run>>

\* variant: the file is opened for writing before the line is assigned
MutateFail_truncated ==
    /\ pc = "mutate"
    /\ ~InRange(data)
    /\ Abort("IndexError")
    /\ fs' = [fs EXCEPT ![Path].content = <<>>]
    /\ UNCHANGED <<fs0, idx, data, stdout, run>>

MutateFail ==
    /\ pc = "mutate"
    /\ ~InRange(data)
    /\ Abort("IndexError")
    /\ UNCHANGED <<fs, fs0, idx, data, stdout, run>>

\* variant: the file is opened in append mode and keeps its content
OpenWrite_append ==
    /\ pc = "open_w"
    /\ CanWrite(fs[Path])
    /\ pc' = "write"
    /\ UNCHANGED <<fs, fs0, idx, data, stdout, exitCode, error, run>>

\* open(i, "w", encoding="utf-8", newline="\n") truncates the file
OpenWrite ==
    /\ pc = "open_w"
    /\ CanWrite(fs[Path])
    /\ fs' = [fs EXCEPT ![Path].content = <<>>]
    /\ pc' = "write"
    /\ UNCHANGED <<fs0, idx, data, stdout, exitCode, error, run>>

OpenWriteFail ==
    /\ pc = "open_w"
    /\ ~CanWrite(fs[Path])
    /\ Abort("PermissionError")
    /\ UNCHANGED <<fs, fs0, idx, data, stdout, run>>

\* variant: the lines never reach the file
WriteLines_unflushed ==
    /\ pc = "write"
    /\ pc' = "print"
    /\ UNCHANGED <<fs, fs0, idx, data, stdout, exitCode, error, run>>

\* file.writelines(data) at the position the open left (the end of the
\* truncated file), then the file is closed
WriteLines ==
    /\ pc = "write"
    /\ fs' = [fs EXCEPT ![Path].content = @ \o writelines(data)]
    /\ pc' = "print"
    /\ UNCHANGED <<fs0, idx, data, stdout, exitCode, error, run>>

\* variant: a failed write puts the original content back
WriteFail_restore ==
    /\ pc = "write"
    /\ fs' = [fs EXCEPT ![Path].content = fs0[Path].content]
    /\ Abort("OSError")
    /\ UNCHANGED <<fs0, idx, data, stdout, run>>

\* the write fails (disk full, ...) after n characters reached the file
WriteFail ==
    /\ pc = "write"
    /\ \E n \in 0..(Len(writelines(data)) - 1) :
          fs' = [fs EXCEPT ![Path].content = @ \o SubSeq(writelines(data), 1, n)]
    /\ Abort("OSError")
    /\ UNCHANGED <<fs0, idx, data, stdout, run>>

\* print(f"{i} version updated"), then the next element of locations
Confirm ==
    /\ pc = "print"
    /\ stdout' = Append(stdout, Confirmation(Path))
    /\ idx' = idx + 1
    /\ IF idx = Len(locations)
       THEN pc' = "done" /\ exitCode' = 0
       ELSE pc' = "read" /\ UNCHANGED exitCode
    /\ UNCHANGED <<fs, fs0, data, error, run>>

\* the script is invoked again on the files the previous run left
Rerun ==
    /\ pc = "done"
    /\ exitCode = 0
    /\ run < MaxRuns
    /\ run' = run + 1
    /\ fs0' = fs
    /\ pc' = "read"
    /\ idx' = 1
    /\ data' = <<>>
    /\ stdout' = <<>>
    /\ exitCode' = -1
    /\ error' = "none"
    /\ UNCHANGED fs

NextReliable ==
    \/ OpenRead
    \/ OpenReadFail
    \/ Mutate
    \/ MutateFail
    \/ OpenWrite
    \/ OpenWriteFail
    \/ WriteLines
    \/ Confirm
    \/ Rerun

Next ==
    \/ NextReliable
    \/ WriteFail

\* every run, including runs in which a write fails part-way
Spec == Init /\ [][Next]_vars

\* runs in which every write that starts completes
SpecReliable == Init /\ [][NextReliable]_vars

(* ------------------------- auxiliary definitions ----------------------- *)
Targets == 1..Len(locations)

\* content of target k before the current run and now
Before(k) == fs0[locations[k]].content
After(k)  == fs[locations[k]].content

\* target k has been read, mutated and completely written in the current run
Synced(k) == k < idx \/ (k = idx /\ pc = "print")

\* the lines of a file as stored: split on LF only, a CR is an ordinary
\* character (so a CRLF line ends in CR LF and a lone CR does not end a line)
StoredLines(content) == SplitLines(content)

HasCR(content) == \E n \in 1..Len(content) : content[n] = CR

\* a list of lines with the line at index 2 blanked out
OtherLines(lines) == [n \in 1..Len(lines) |-> IF n = 3 THEN <<>> ELSE lines[n]]

IsPrefix(s, t) == Len(s) <= Len(t) /\ s = SubSeq(t, 1, Len(s))
IsStrictPrefix(s, t) == Len(s) < Len(t) /\ IsPrefix(s, t)

\* what a completed synchronization writes for a file whose content was c
Intended(c) == writelines(SetVersion(readlines(c)))

(* ------------------------------- claims -------------------------------- *)

\* C1 (as stated): after a target is synchronized every stored line other
\* than the one at index 2 has the content and terminator it had before the
\* run, CRLF terminators and lone carriage returns included, and the lines
\* held in memory are the stored lines with their original terminators,
\* written back unmodified.
C1_LineIsolationBytes ==
    /\ \A k \in Targets : Synced(k) =>
          OtherLines(StoredLines(After(k))) = OtherLines(StoredLines(Before(k)))
    /\ pc = "print" =>
          /\ OtherLines(data) = OtherLines(StoredLines(Before(idx)))
          /\ After(idx) = Concat(data)

\* C1 (amended): after a target is synchronized every stored line other than
\* the one at index 2 is the line readlines() returned for it, that is the
\* original line with a CRLF or lone-CR terminator replaced by LF; when the
\* original content has no carriage return these lines are identical to the
\* stored original lines.  The lines held in memory never contain a CR and
\* are written back unmodified.
C1_LineIsolation ==
    /\ \A k \in Targets : Synced(k) =>
          LET after == OtherLines(StoredLines(After(k)))
          IN  /\ after = OtherLines(readlines(Before(k)))
              /\ ~HasCR(Before(k)) => after = OtherLines(StoredLines(Before(k)))
    /\ pc = "print" =>
          /\ OtherLines(data) = OtherLines(readlines(Before(idx)))
          /\ ~HasCR(Concat(data))
          /\ After(idx) = Concat(data)

\* a synchronized target whose original content used CRLF on another line
C1_Witness ==
    \E k \in Targets :
       /\ Synced(k)
       /\ Len(StoredLines(Before(k))) >= 4
       /\ HasCR(StoredLines(Before(k))[1])
       /\ HasCR(StoredLines(Before(k))[4])
       /\ ~HasCR(After(k))

\* every target exists, is readable and writable and has at least 3 lines
Precondition(f) ==
    \A p \in Paths :
       CanRead(f[p]) /\ CanWrite(f[p]) /\ Len(readlines(f[p].content)) >= 3

\* the documented scenario after synchronization
SampleFileUpdated ==
    <<"[", "p", "a", "c", "k", "a", "g", "e", "]", LF,
      "n", "a", "m", "e", " ", "=", " ", "\"", "x", "\"", LF,
      "v", "e", "r", "s", "i", "o", "n", " ", "=", " ", "\"", "0", ".", "2", ".", "5", "\"", LF,
      "e", "d", "i", "t", "i", "o", "n", " ", "=", " ", "\"", "2", "0", "2", "1", "\"", LF>>

\* C2: when all three targets exist, are accessible and have at least 3
\* lines, no error is raised, the run ends with exit code 0 and the stored
\* line at index 2 of every target is then `version = "0.2.5"` followed by
\* one LF, whatever it was before; the documented manifest becomes the
\* documented result.
C2_SuccessPostcondition ==
    Precondition(fs0) =>
       /\ exitCode # 1
       /\ error = "none"
       /\ pc = "done" =>
             /\ exitCode = 0
             /\ \A k \in Targets :
                   /\ StoredLines(After(k))[3] =
                         <<"v", "e", "r", "s", "i", "o", "n", " ", "=", " ", "\"",
                           "0", ".", "2", ".", "5", "\"", LF>>
                   /\ Before(k) = SampleFile => After(k) = SampleFileUpdated

\* a successful first run over the documented manifest and over a file whose
\* third line was not a version line
C2_Witness ==
    /\ pc = "done"
    /\ exitCode = 0
    /\ run = 1
    /\ \E k \in Targets : Before(k) = SampleFile /\ After(k) = SampleFileUpdated
    /\ \E k \in Targets : Before(k) = CRLFFile

\* C3: after a target is synchronized the stored line at index 2 ends with
\* exactly one LF that is not preceded by a CR, whatever terminators the
\* file used before.
C3_TerminatorNormalization ==
    \A k \in Targets : Synced(k) =>
       LET lines == StoredLines(After(k))
       IN  /\ Len(lines) >= 3
           /\ LET l == lines[3]
              IN  /\ Len(l) >= 2
                  /\ l[Len(l)] = LF
                  /\ l[Len(l) - 1] # CR
                  /\ \A n \in 1..(Len(l) - 1) : l[n] # LF

\* a synchronized target whose original third line ended in CRLF
C3_Witness ==
    \E k \in Targets :
       /\ Synced(k)
       /\ Len(StoredLines(Before(k))) >= 3
       /\ LET l == StoredLines(Before(k))[3]
          IN  Len(l) >= 2 /\ l[Len(l)] = LF /\ l[Len(l) - 1] = CR

\* C4: when a second run with the same VERSION succeeds, every target has
\* the content the first run left.
C4_Idempotence ==
    (run >= 2 /\ pc = "done" /\ exitCode = 0) =>
       \A k \in Targets : After(k) = Before(k)

\* a second successful run over files with at least four lines
C4_Witness ==
    /\ run >= 2
    /\ pc = "done"
    /\ exitCode = 0
    /\ \A k \in Targets : Len(readlines(After(k))) >= 4

\* C5: synchronization leaves the number of lines (as the script reads them)
\* and their order unchanged: the written file has as many lines as were
\* read, each line other than index 2 at its old position, also when the
\* line at index 2 was the last one and had no terminator.
C5_OrderPreservation ==
    \A k \in Targets : Synced(k) =>
       LET before == readlines(Before(k))
           after  == readlines(After(k))
       IN  /\ Len(after) = Len(before)
           /\ Len(StoredLines(After(k))) = Len(before)
           /\ OtherLines(after) = OtherLines(before)

\* a synchronized target whose third line was the last and unterminated
C5_Witness ==
    \E k \in Targets :
       /\ Synced(k)
       /\ Len(readlines(Before(k))) = 3
       /\ Before(k)[Len(Before(k))] \notin {CR, LF}
       /\ Len(readlines(After(k))) = 3

\* C6: a target that does not exist or cannot be opened for reading never
\* gets a confirmation line, nor does any later target; the run never gets
\* past it, and once the run has ended the exit status is non-zero, the
\* error raised at that target being an access error.
C6_FatalOnMissing ==
    \A k \in Targets : ~CanRead(fs0[locations[k]]) =>
       /\ Len(stdout) < k
       /\ idx <= k
       /\ (idx = k => pc \in {"read", "done"})
       /\ pc = "done" =>
             /\ exitCode # 0
             /\ idx = k => error \in {"FileNotFoundError", "PermissionError"}

\* the run ended at a missing second target, after confirming the first
C6_Witness ==
    /\ pc = "done"
    /\ idx = 2
    /\ ~fs0[locations[2]].exists
    /\ error = "FileNotFoundError"
    /\ exitCode = 1
    /\ Len(stdout) = 1

\* C7: when the run fails at target idx, every earlier target holds its
\* rewritten content (line at index 2 replaced, nothing rolled back) and
\* every later target is exactly as it was before the run.
C7_NoTransactionality ==
    (pc = "done" /\ exitCode # 0) =>
       \A k \in Targets :
          /\ k < idx => /\ After(k) = Intended(Before(k))
                        /\ StoredLines(After(k))[3] = VersionLine
          /\ k > idx => fs[locations[k]] = fs0[locations[k]]

\* the run failed at the second target after changing the first
C7_Witness ==
    /\ pc = "done"
    /\ exitCode # 0
    /\ idx = 2
    /\ After(1) # Before(1)
    /\ After(1) = Intended(Before(1))
    /\ After(3) = Before(3)
    /\ fs0[locations[3]].exists

\* C8: at every point of a run the confirmation lines printed so far are
\* `<path> version updated` for the first idx - 1 locations, in list order;
\* every confirmed target holds its complete rewritten content, and no
\* target after the current one has been touched.
C8_ConfirmationOrdering ==
    /\ Len(stdout) = idx - 1
    /\ idx <= Len(locations) + 1
    /\ (idx = Len(locations) + 1) <=> (pc = "done" /\ exitCode = 0)
    /\ \A k \in 1..Len(stdout) :
          /\ stdout[k] = locations[k] \o " version updated"
          /\ After(k) = Intended(Before(k))
    /\ \A k \in Targets : k > idx => fs[locations[k]] = fs0[locations[k]]

\* two targets confirmed, the third being written
C8_Witness ==
    /\ pc = "write"
    /\ idx = 3
    /\ stdout = <<"./vec-utils/Cargo.toml version updated",
                  "./vec-utils-py/Cargo.toml version updated">>
    /\ After(1) # Before(1)

\* C9: a readable target with fewer than 3 lines is never opened for
\* writing: the run ends at it with an IndexError and a non-zero status,
\* its content is what it was before the run, and no confirmation line is
\* printed for it.
C9_ShapeError ==
    \A k \in Targets :
       (CanRead(fs0[locations[k]]) /\ Len(readlines(Before(k))) < 3) =>
          /\ fs[locations[k]] = fs0[locations[k]]
          /\ Len(stdout) < k
          /\ idx <= k
          /\ (idx = k => pc \in {"read", "mutate", "done"})
          /\ (idx = k /\ pc = "done") => (error = "IndexError" /\ exitCode # 0)

\* the run ended with an IndexError at a non-empty two-line target
C9_Witness ==
    /\ pc = "done"
    /\ error = "IndexError"
    /\ Len(readlines(Before(idx))) = 2
    /\ After(idx) = Before(idx)
    /\ Len(stdout) = idx - 1

\* C10 (as stated): a failure after the truncation leaves the target empty
\* or with a strict prefix of the intended content, never with its original
\* content; a failure at any earlier point leaves the original content.
C10_PartialWriteNeverOriginal ==
    (pc = "done" /\ exitCode # 0) =>
       IF error = "OSError"
       THEN /\ IsStrictPrefix(After(idx), Intended(Before(idx)))
            /\ After(idx) # Before(idx)
       ELSE After(idx) = Before(idx)

\* C10 (amended): a failure after the truncation leaves the target empty or
\* with a strict prefix of the intended content, and nothing restores the
\* original: the target then holds its original content only if that
\* content is itself such a prefix (three lines without CR, the third
\* unterminated and a prefix of the version line); a failure at any earlier
\* point leaves the original content.
C10_PartialWrite ==
    (pc = "done" /\ exitCode # 0) =>
       IF error = "OSError"
       THEN /\ IsStrictPrefix(After(idx), Intended(Before(idx)))
            /\ After(idx) = Before(idx) =>
                  /\ ~HasCR(Before(idx))
                  /\ Len(StoredLines(Before(idx))) = 3
                  /\ IsStrictPrefix(StoredLines(Before(idx))[3], VersionLine)
       ELSE After(idx) = Before(idx)

\* a failed write left the target empty, another one left it with its
\* first line only
C10_Witness ==
    /\ pc = "done"
    /\ error = "OSError"
    /\ Before(idx) = LFFile
    /\ After(idx) \in {<<>>, <<"v", LF>>}

====
